---- MODULE Spec2Model ----
(***************************************************************************)
(* Model of the Waveshare relay hub (src/hub.py): the ConnectionManager    *)
(* with its retry loop and circuit breaker, and the WaveshareRelayHub      *)
(* operations set_relay_state and read_relay_status, run by concurrent     *)
(* asyncio tasks on one event loop.  A step of the model is the code a     *)
(* task runs between two suspension points (a contended lock, the TCP      *)
(* connect, the TCP read, the backoff sleep).                              *)
(*                                                                         *)
(* Spec, LiveSpec and PairSpec are the concurrent hub of 16 relays;        *)
(* PairSpec has the switch of relay 1 as one of its callers.  StoreSpec,   *)
(* CodecSpec, CoordSpec, EntitySpec and PollSpec run the operations one at *)
(* a time, each to its end: StoreSpec over the state files a hub can find  *)
(* (persistence and restore_last_states), CodecSpec over hubs of 8, 12, 16 *)
(* and 32 relays (the frames), CoordSpec with the polling coordinator of   *)
(* src/coordinator.py, EntitySpec under the entities of src/switch.py and  *)
(* src/light.py, PollSpec with the coordinator polling on its timer.       *)
(*                                                                         *)
(* Time is counted in ticks of 15 seconds: the recovery timeout of 30 s is *)
(* 2 ticks.  int.to_bytes is modelled with its default byte order "big"    *)
(* (Python 3.11 and later; the repository's tests call it that way).       *)
(* The command statistics of the hub (diagnostic counters) are left out.   *)
(***************************************************************************)
EXTENDS Integers, Sequences, FiniteSets, TLC

\* ------------------------------------------------------------------------
\* Configuration
\* ------------------------------------------------------------------------
NumRelays == 16
DeviceAddress == 1
MaxAttempts == 3
FailureThreshold == 3
RecoveryTimeout == 2
ConfiguredRelays == {1, 9, 17}
RelayArgs == {0, 1, 2, 9, 17, 18}
MaxFailures == 4
MaxLiveFailures == 1
DefaultPollInterval == 30
StoreRelayArgs == {1, 2, 17}
MaxConsecutiveFailures == 3
MaxPollInterval == 300
MaxFailedRefreshes == 4
MaxRefreshRequests == 1
MaxOn == 2

\* The tasks of the event loop: the entity task issues set_relay_state calls,
\* the polling task issues read_relay_status calls.
Writers == {"entity"}
Pollers == {"poller"}
Tasks == Writers \cup Pollers

\* ------------------------------------------------------------------------
\* State
\* ------------------------------------------------------------------------
VARIABLES
    relay_states,          \* hub._relay_states
    state_file,            \* the JSON state file of the hub
    is_available,          \* hub._is_available
    lock,                  \* hub._lock: the task holding it
    connection_lock,       \* ConnectionManager._connection_lock
    connection_waiters,    \* tasks queued on the connection lock
    state,                 \* ConnectionManager.state
    failure_count,         \* ConnectionManager._failure_count
    circuit_breaker_open,  \* ConnectionManager._circuit_breaker_open
    half_open_calls,       \* ConnectionManager._half_open_calls
    since_failure,         \* time.time() - _last_failure_time in ticks while the
                           \* breaker is open (where the code reads it), else 0
    coils,                 \* the relays of the device
    pc,                    \* where each task is suspended
    op,                    \* the hub operation each task runs
    attempt,               \* the loop variable of the retry loop
    command,               \* the frame each task is sending
    result,                \* what the operation returned or raised
    last_response,         \* what send_command returned to the operation
    trial,                 \* the task whose breaker check ended the Open state
    exhausted_run,         \* sends that exhausted their attempts since the
                           \* last send that returned a response
    solo,                  \* the set_relay_state call running alone, if any
    num_relays,            \* hub._num_relays
    restore_state,         \* hub._restore_state
    last_successful_communication,
                           \* "recent" while time.time() minus
                           \* hub._last_successful_communication is below
                           \* 300 seconds, else "long_ago"
    base_poll_interval,    \* coordinator._base_poll_interval
    consecutive_failures,  \* coordinator._consecutive_failures
    current_poll_interval, \* coordinator._current_poll_interval
    update_interval,       \* coordinator.update_interval in seconds
    refresh_requests,      \* calls of coordinator.async_request_refresh
    failed_refreshes,      \* refreshes that failed since the last one that
                           \* succeeded
    entity,                \* the switch or light entity of a relay
    reachable              \* the device is reachable from now on: every
                           \* attempt gets the device's reply

vars == <<relay_states, state_file, is_available, lock, connection_lock,
          connection_waiters, state, failure_count, circuit_breaker_open,
          half_open_calls, since_failure, coils, pc, op, attempt, command,
          result, last_response, trial, exhausted_run, solo, num_relays,
          restore_state, last_successful_communication, base_poll_interval,
          consecutive_failures, current_poll_interval, update_interval,
          refresh_requests, failed_refreshes, entity, reachable>>

hubVars == <<relay_states, state_file, is_available,
             last_successful_communication, lock>>
connVars == <<connection_lock, connection_waiters, state>>
breakerVars == <<failure_count, circuit_breaker_open, half_open_calls,
                 since_failure, trial, exhausted_run>>
\* what no operation of the program changes
configVars == <<num_relays, restore_state, base_poll_interval, reachable>>
coordVars == <<consecutive_failures, current_poll_interval, update_interval,
               refresh_requests, failed_refreshes>>

\* hub._byte_size
ByteSize == (num_relays + 7) \div 8

\* ------------------------------------------------------------------------
\* Byte helpers
\* ------------------------------------------------------------------------
RECURSIVE Pow2(_)
Pow2(n) == IF n = 0 THEN 1 ELSE 2 * Pow2(n - 1)

\* a ^ b on n-bit operands
RECURSIVE XorBits(_, _, _)
XorBits(a, b, n) ==
    IF n = 0 THEN 0
    ELSE (((a % 2) + (b % 2)) % 2) + 2 * XorBits(a \div 2, b \div 2, n - 1)

\* crc ^ 0xA001 and crc ^ byte, tabulated once
XorPoly == [x \in 0..32767 |-> XorBits(x, 40961, 16)]
XorByte == [x \in 0..255 |-> [y \in 0..255 |-> XorBits(x, y, 8)]]

\* crc ^= byte
XorIn(crc, byte) == 256 * (crc \div 256) + XorByte[crc % 256][byte]

\* for _ in range(k): crc = (crc >> 1) ^ 0xA001 if crc & 0x0001 else crc >> 1
RECURSIVE CrcShift(_, _)
CrcShift(crc, k) ==
    IF k = 0 THEN crc
    ELSE CrcShift(IF crc % 2 = 1 THEN XorPoly[crc \div 2] ELSE crc \div 2,
                  k - 1)

\* the eight shifts after a byte went in, tabulated once over all 16-bit values
Shift8 == [crc \in 0..65535 |-> CrcShift(crc, 8)]

\* for byte in data: crc ^= byte; eight shifts
RECURSIVE CrcFold(_, _, _)
CrcFold(crc, data, i) ==
    IF i > Len(data) THEN crc
    ELSE CrcFold(Shift8[XorIn(crc, data[i])], data, i + 1)

CrcHighFirst(data) ==
    LET crc == CrcFold(65535, data, 1)
    IN  <<crc \div 256, crc % 256>>

\* calculate_crc: CRC-16/MODBUS, returned as two bytes, low byte first
calculate_crc(data) ==
    LET crc == CrcFold(65535, data, 1)
    IN  <<crc % 256, crc \div 256>>

\* ------------------------------------------------------------------------
\* Frames built by the hub
\* ------------------------------------------------------------------------
RECURSIVE BitPatternFrom(_, _)
BitPatternFrom(states, i) ==
    IF i > Len(states) THEN 0
    ELSE (IF states[i] THEN Pow2(i - 1) ELSE 0) + BitPatternFrom(states, i + 1)

Min(a, b) == IF a < b THEN a ELSE b

\* sum((1 << i) for i, relay_state in enumerate(states) if relay_state).
\* The sum passes 2^31 - 1 with 32 relays, so the integer is held as its
\* base-256 digits, least significant first: digit j is the sum over the
\* relays 8j+1 .. 8j+8, divided by 256^j.
BitPattern(states) ==
    [j \in 1..((Len(states) + 7) \div 8) |->
        BitPatternFrom(SubSeq(states, 8 * j - 7, Min(8 * j, Len(states))), 1)]

\* int.to_bytes(length, "little")
ToBytesLittle(value, length) ==
    [k \in 1..length |-> IF k <= Len(value) THEN value[k] ELSE 0]

\* int.to_bytes(length) with the default byteorder "big", of an integer
\* given by its base-256 digits
ToBytes(value, length) ==
    [k \in 1..length |->
        IF length + 1 - k <= Len(value) THEN value[length + 1 - k] ELSE 0]

WriteCommand(states) ==
    LET body == <<DeviceAddress, 15, 0, 0, 0, num_relays, ByteSize>>
                \o ToBytes(BitPattern(states), ByteSize)
    IN  body \o calculate_crc(body)

QueryCommand ==
    LET body == <<DeviceAddress, 1, 0, 0, 0, num_relays>>
    IN  body \o calculate_crc(body)

\* f"{byte:08b}": the bits of a byte, most significant first
ByteBits(byte) == [k \in 1..8 |-> (byte \div Pow2(8 - k)) % 2]

RECURSIVE FullBinary(_, _)
FullBinary(bytes, i) ==
    IF i > Len(bytes) THEN <<>>
    ELSE ByteBits(bytes[i]) \o FullBinary(bytes, i + 1)

NotReversed(s) == s

\* [::-1]
Reversed(s) == [k \in 1..Len(s) |-> s[Len(s) + 1 - k]]

\* response[3:-2], binary string of all bytes, reversed, first num_relays bits
DecodeStatus(response) ==
    LET status_bytes == SubSeq(response, 4, Len(response) - 2)
        full_binary == Reversed(FullBinary(status_bytes, 1))
    IN  [k \in 1..Min(num_relays, Len(full_binary)) |-> full_binary[k] = 1]

\* ------------------------------------------------------------------------
\* The relay device: Modbus coils, coil i in bit i % 8 of data byte i // 8
\* ------------------------------------------------------------------------
CoilByte(device, i) ==
    LET bit(b) == IF 8 * i + b + 1 <= Len(device) /\ device[8 * i + b + 1]
                  THEN Pow2(b) ELSE 0
    IN  bit(0) + bit(1) + bit(2) + bit(3) + bit(4) + bit(5) + bit(6) + bit(7)

DeviceReadCoils(device, count) ==
    LET byte_count == (count + 7) \div 8
        body == <<DeviceAddress, 1, byte_count>>
                \o [i \in 1..byte_count |-> CoilByte(device, i - 1)]
    IN  body \o calculate_crc(body)

DeviceWriteCoils(device, frame) ==
    LET coil_count == frame[6]
        byte_count == frame[7]
        coil_values == SubSeq(frame, 8, 7 + byte_count)
    IN  [k \in 1..Len(device) |->
            IF k <= coil_count /\ (k - 1) \div 8 < Len(coil_values)
            THEN (coil_values[(k - 1) \div 8 + 1] \div Pow2((k - 1) % 8)) % 2 = 1
            ELSE device[k]]

DeviceWriteAck(frame) ==
    LET body == SubSeq(frame, 1, 6)
    IN  body \o calculate_crc(body)

\* the device's device after it has processed a frame
DeviceCoilsAfter(device, frame) ==
    IF frame[2] = 15 THEN DeviceWriteCoils(device, frame) ELSE device

\* the device's full reply to a frame
DeviceReply(device, frame) ==
    IF frame[2] = 15 THEN DeviceWriteAck(frame)
    ELSE DeviceReadCoils(device, frame[6])

\* ------------------------------------------------------------------------
\* Values of the state
\* ------------------------------------------------------------------------
NoTask == "none"
NoOp == [kind |-> "none", n |-> 0, v |-> FALSE]
NoSolo == [task |-> NoTask, before |-> <<>>, frames |-> 0]
None == [isNone |-> TRUE, bytes |-> <<>>]
Some(bytes) == [isNone |-> FALSE, bytes |-> bytes]
\* The state file: whether it exists, whether its text parses and as what
\* ("object", "array", or "invalid" for text that is no JSON), and the
\* entries of an object in file order.  Keys are strings, held as sequences
\* of characters.
NoFile == [exists |-> FALSE, json |-> "object", items |-> <<>>]

AllOff == [k \in 1..num_relays |-> FALSE]

\* no entity: the fields of an entity before it is constructed.  calls,
\* writes and reported count the set_relay_state calls and the
\* async_write_ha_state calls of the entity's last command and collect what
\* the set_relay_state calls returned or raised.
NoEntity ==
    [kind |-> "none", address |-> 0, attr_is_on |-> FALSE,
     last_command_success |-> TRUE, command_retries |-> 0,
     position |-> "idle", target_state |-> FALSE, attempt |-> 0,
     calls |-> 0, writes |-> 0, reported |-> {}]

\* what the coordinator starts with for a poll interval
CoordinatorInit(poll_interval) ==
    /\ base_poll_interval = poll_interval
    /\ consecutive_failures = 0
    /\ current_poll_interval = poll_interval
    /\ update_interval = poll_interval
    /\ refresh_requests = 0
    /\ failed_refreshes = 0

Init ==
    /\ entity = NoEntity
    /\ reachable = FALSE
    /\ num_relays = NumRelays
    /\ restore_state = TRUE
    /\ last_successful_communication = "long_ago"
    /\ CoordinatorInit(DefaultPollInterval)
    /\ relay_states = AllOff
    /\ state_file = NoFile
    /\ is_available = TRUE
    /\ lock = NoTask
    /\ connection_lock = NoTask
    /\ connection_waiters = <<>>
    /\ state = "disconnected"
    /\ failure_count = 0
    /\ circuit_breaker_open = FALSE
    /\ half_open_calls = 0
    /\ since_failure = 0
    /\ coils = AllOff
    /\ pc = [t \in Tasks |-> "idle"]
    /\ op = [t \in Tasks |-> NoOp]
    /\ attempt = [t \in Tasks |-> 0]
    /\ command = [t \in Tasks |-> <<>>]
    /\ result = [t \in Tasks |-> "pending"]
    /\ last_response = [t \in Tasks |-> None]
    /\ trial = NoTask
    /\ exhausted_run = 0
    /\ solo = NoSolo

\* ------------------------------------------------------------------------
\* ConnectionManager
\* ------------------------------------------------------------------------
IsCircuitBreakerOpenEarly ==
    IF ~circuit_breaker_open THEN FALSE
    ELSE IF since_failure >= RecoveryTimeout THEN FALSE
    ELSE TRUE

\* _is_circuit_breaker_open: its return value
IsCircuitBreakerOpen ==
    IF ~circuit_breaker_open THEN FALSE
    ELSE IF since_failure > RecoveryTimeout THEN FALSE
    ELSE TRUE

\* _is_circuit_breaker_open: its effect when it returns False
EnterHalfOpen(t) ==
    IF circuit_breaker_open
    THEN /\ circuit_breaker_open' = FALSE
         /\ half_open_calls' = 0
         /\ since_failure' = 0
         /\ trial' = t
    ELSE UNCHANGED <<circuit_breaker_open, half_open_calls, since_failure,
                     trial>>

EnterAttemptNoLock(t, waiters) ==
    /\ connection_lock' = t
    /\ connection_waiters' = waiters
    /\ state' = "connecting"
    /\ pc' = [pc EXCEPT ![t] = "connecting"]

\* async with self._connection_lock, up to the await of open_connection
EnterAttempt(t, waiters) ==
    IF connection_lock = NoTask /\ waiters = <<>>
    THEN /\ connection_lock' = t
         /\ connection_waiters' = waiters
         /\ state' = "connecting"
         /\ pc' = [pc EXCEPT ![t] = "connecting"]
    ELSE /\ connection_waiters' = Append(waiters, t)
         /\ pc' = [pc EXCEPT ![t] = "wait_connection"]
         /\ UNCHANGED <<connection_lock, state>>

\* send_command_with_retry, from the breaker check to the first attempt
StartSend(t) ==
    /\ EnterHalfOpen(t)
    /\ attempt' = [attempt EXCEPT ![t] = 0]
    /\ EnterAttempt(t, connection_waiters)
    /\ UNCHANGED <<failure_count, exhausted_run>>

\* _record_success
RecordSuccess ==
    /\ failure_count' = 0
    /\ circuit_breaker_open' = FALSE
    /\ since_failure' = 0
    /\ UNCHANGED half_open_calls

\* _record_failure
RecordFailureStrict ==
    /\ failure_count' = failure_count + 1
    /\ circuit_breaker_open' =
          IF failure_count + 1 > FailureThreshold THEN TRUE
          ELSE circuit_breaker_open
    /\ since_failure' = 0
    /\ UNCHANGED half_open_calls

RecordFailure ==
    /\ failure_count' = failure_count + 1
    /\ circuit_breaker_open' =
          IF failure_count + 1 >= FailureThreshold THEN TRUE
          ELSE circuit_breaker_open
    /\ since_failure' = 0
    /\ UNCHANGED half_open_calls

\* the send of task t is over: the bookkeeping of trial and exhausted_run
SendOver(t, exhausted) ==
    /\ trial' = IF trial = t THEN NoTask ELSE trial
    /\ exhausted_run' = IF exhausted THEN exhausted_run + 1 ELSE 0

\* connection_stats
ConnectionStats ==
    [connection_state |-> state,
     circuit_breaker_open |-> circuit_breaker_open,
     failure_count |-> failure_count]

\* ------------------------------------------------------------------------
\* WaveshareRelayHub
\* ------------------------------------------------------------------------
Truthy(response) == ~response.isNone /\ Len(response.bytes) > 0

ValidationErrors == {"OutOfRange", "NotConfigured"}

SavedRelays == {n \in ConfiguredRelays : 1 <= n /\ n <= num_relays}

Digits == <<"0", "1", "2", "3", "4", "5", "6", "7", "8", "9">>

\* str(relay_num)
RECURSIVE Str(_)
Str(n) ==
    IF n < 10 THEN <<Digits[n + 1]>>
    ELSE Str(n \div 10) \o <<Digits[(n % 10) + 1]>>

\* does int(key) return: the key is a decimal numeral (signs, blanks and
\* underscores, which int() also takes, are not among the keys modelled)
IsNumeral(key) ==
    /\ Len(key) > 0
    /\ \A i \in 1..Len(key) : \E d \in 1..10 : Digits[d] = key[i]

\* int(key) of a numeral
RECURSIVE ParseInt(_)
ParseInt(key) ==
    LET last == (CHOOSE d \in 1..10 : Digits[d] = key[Len(key)]) - 1
    IN  IF Len(key) = 1 THEN last
        ELSE 10 * ParseInt(SubSeq(key, 1, Len(key) - 1)) + last

\* the relay numbers of a set in the order the entries are written
RECURSIVE Ascending(_)
Ascending(S) ==
    IF S = {} THEN <<>>
    ELSE LET m == CHOOSE x \in S : \A y \in S : x <= y
         IN  <<m>> \o Ascending(S \ {m})

SavedEntryNoOffset(states, n) ==
    [key |-> Str(n), value |-> states[Min(n + 1, Len(states))]]

\* states_to_save[str(relay_num)] = self._relay_states[relay_num - 1]
SavedEntry(states, n) == [key |-> Str(n), value |-> states[n]]

\* _save_last_states: the file after it ran
SaveLastStates(states) ==
    IF ~restore_state THEN state_file
    ELSE [exists |-> TRUE, json |-> "object",
          items |-> LET saved == Ascending(SavedRelays)
                    IN  [i \in 1..Len(saved) |-> SavedEntry(states, saved[i])]]

RestorableInRange(n) == 1 <= n /\ n <= num_relays

\* relay_num in self._configured_relays and 1 <= relay_num <= self._num_relays
Restorable(n) == n \in ConfiguredRelays /\ 1 <= n /\ n <= num_relays

\* the for loop of _load_last_states from entry i on: the vector it leaves
\* and the exception that ended it, if any
RECURSIVE LoadItems(_, _, _)
LoadItems(items, i, states) ==
    IF i > Len(items) THEN [states |-> states, raised |-> "none"]
    ELSE IF ~IsNumeral(items[i].key)
    THEN [states |-> states, raised |-> "ValueError"]
    ELSE LET relay_num == ParseInt(items[i].key)
         IN  LoadItems(items, i + 1,
                       IF Restorable(relay_num)
                       THEN [states EXCEPT ![relay_num] = items[i].value]
                       ELSE states)

\* _load_last_states: the vector it leaves and the exception it raises
LoadLastStates(states) ==
    IF ~restore_state \/ ~state_file.exists
    THEN [states |-> states, raised |-> "none"]
    ELSE IF state_file.json = "invalid"
    THEN [states |-> states, raised |-> "none"]
    ELSE IF state_file.json # "object"
    THEN [states |-> states, raised |-> "AttributeError"]
    ELSE LoadItems(state_file.items, 1, states)

SetRelayResultAlways(response) == "True"

\* what set_relay_state returns for a response
SetRelayResult(response) == IF response.isNone THEN "False" ELSE "True"

InvalidStatusNoneOnly(response) == response.isNone

InvalidStatusHeaderOnly(response) ==
    response.isNone \/ Len(response.bytes) < 5

\* read_relay_status: is the response rejected
InvalidStatus(response) ==
    response.isNone \/ Len(response.bytes) < 5 + (num_relays + 7) \div 8

\* send_command after the send returned, and the rest of the operation
FinishSend(t, kind, response, states) ==
    /\ is_available' = Truthy(response)
    /\ last_successful_communication' =
          IF Truthy(response) THEN "recent" ELSE last_successful_communication
    /\ last_response' = [last_response EXCEPT ![t] = response]
    /\ pc' = [pc EXCEPT ![t] = "done"]
    /\ IF kind = "set"
       THEN /\ relay_states' = states
            /\ result' = [result EXCEPT ![t] = SetRelayResult(response)]
            /\ lock' = NoTask
       ELSE /\ UNCHANGED lock
            /\ IF InvalidStatus(response)
               THEN /\ relay_states' = states
                    /\ result' = [result EXCEPT ![t] = "None"]
               ELSE /\ relay_states' = DecodeStatus(response.bytes)
                    /\ result' = [result EXCEPT ![t] = "States"]

Idle(t) == pc[t] \in {"idle", "done"}

ValidateRelayFromZero(n) ==
    IF n < 0 \/ n > num_relays THEN "OutOfRange"
    ELSE IF n \notin ConfiguredRelays THEN "NotConfigured"
    ELSE "valid"

\* the two checks at the head of set_relay_state
ValidateRelay(n) ==
    IF n < 1 \/ n > num_relays THEN "OutOfRange"
    ELSE IF n \notin ConfiguredRelays THEN "NotConfigured"
    ELSE "valid"

RaiseAfterUpdate(t, n, v, error) ==
    /\ result' = [result EXCEPT ![t] = error]
    /\ pc' = [pc EXCEPT ![t] = "done"]
    /\ solo' = NoSolo
    /\ relay_states' = [relay_states EXCEPT ![n] = v]
    /\ state_file' = SaveLastStates(relay_states')
    /\ UNCHANGED <<is_available, last_successful_communication, lock,
                   connVars, breakerVars, attempt, command, last_response>>

\* set_relay_state raises ValueError
Raise(t, n, v, error) ==
    /\ result' = [result EXCEPT ![t] = error]
    /\ pc' = [pc EXCEPT ![t] = "done"]
    /\ solo' = NoSolo
    /\ UNCHANGED <<hubVars, connVars, breakerVars, attempt, command,
                   last_response>>

\* set_relay_state(relay_number, state), up to its first suspension
CallSetRelay(t, n, v) ==
    /\ pc[t] = "idle"
    /\ UNCHANGED <<configVars, coordVars, entity>>
    /\ failure_count < MaxFailures
    /\ lock = NoTask
    /\ op' = [op EXCEPT ![t] = [kind |-> "set", n |-> n, v |-> v]]
    /\ UNCHANGED coils
    /\ IF ValidateRelay(n) # "valid"
       THEN Raise(t, n, v, ValidateRelay(n))
       ELSE LET states == [relay_states EXCEPT ![n] = v]
            IN  /\ solo' = IF \A u \in Tasks \ {t} : Idle(u)
                           THEN [task |-> t, before |-> relay_states,
                                 frames |-> 0]
                           ELSE NoSolo
                /\ state_file' = SaveLastStates(states)
                /\ command' = [command EXCEPT ![t] = WriteCommand(states)]
                /\ IF IsCircuitBreakerOpen
                   THEN /\ FinishSend(t, "set", None, states)
                        /\ UNCHANGED <<connVars, breakerVars, attempt>>
                   ELSE /\ relay_states' = states
                        /\ lock' = t
                        /\ StartSend(t)
                        /\ UNCHANGED <<is_available,
                                       last_successful_communication,
                                       result, last_response>>

\* read_relay_status(), up to its first suspension
CallReadStatus(t) ==
    /\ pc[t] = "idle"
    /\ UNCHANGED <<configVars, coordVars, entity>>
    /\ failure_count < MaxFailures
    /\ op' = [op EXCEPT ![t] = [kind |-> "read", n |-> 0, v |-> FALSE]]
    /\ command' = [command EXCEPT ![t] = QueryCommand]
    /\ solo' = NoSolo
    /\ UNCHANGED <<state_file, coils>>
    /\ IF IsCircuitBreakerOpen
       THEN /\ FinishSend(t, "read", None, relay_states)
            /\ UNCHANGED <<connVars, breakerVars, attempt>>
       ELSE /\ StartSend(t)
            /\ UNCHANGED <<relay_states, is_available,
                           last_successful_communication, lock, result,
                           last_response>>

\* a task queued on the connection lock gets it and starts its attempt
ConnectionGranted(t) ==
    /\ pc[t] = "wait_connection"
    /\ UNCHANGED <<configVars, coordVars, entity>>
    /\ connection_lock = NoTask
    /\ connection_waiters # <<>>
    /\ Head(connection_waiters) = t
    /\ connection_lock' = t
    /\ connection_waiters' = Tail(connection_waiters)
    /\ state' = "connecting"
    /\ pc' = [pc EXCEPT ![t] = "connecting"]
    /\ UNCHANGED <<hubVars, breakerVars, coils, op, attempt, command, result,
                   last_response, solo>>

AttemptFailedNoFinally(t) ==
    /\ state' = "failed"
    /\ connection_lock' = NoTask
    /\ UNCHANGED <<connection_waiters, state_file, op, attempt, command, solo>>
    /\ IF attempt[t] < MaxAttempts - 1
       THEN /\ pc' = [pc EXCEPT ![t] = "backoff"]
            /\ UNCHANGED <<relay_states, is_available,
                           last_successful_communication, lock, breakerVars,
                           result, last_response>>
       ELSE /\ RecordFailure
            /\ SendOver(t, TRUE)
            /\ FinishSend(t, op[t].kind, None, relay_states)

AttemptFailedOneMore(t) ==
    /\ state' = "disconnected"
    /\ connection_lock' = NoTask
    /\ UNCHANGED <<connection_waiters, state_file, op, attempt, command, solo>>
    /\ IF attempt[t] < MaxAttempts
       THEN /\ pc' = [pc EXCEPT ![t] = "backoff"]
            /\ UNCHANGED <<relay_states, is_available,
                           last_successful_communication, lock, breakerVars,
                           result, last_response>>
       ELSE /\ RecordFailure
            /\ SendOver(t, TRUE)
            /\ FinishSend(t, op[t].kind, None, relay_states)

\* an attempt raised: leave _send_command_single and the connection lock,
\* then sleep, or give up after the last attempt
AttemptFailed(t) ==
    /\ state' = "disconnected"
    /\ connection_lock' = NoTask
    /\ UNCHANGED <<connection_waiters, state_file, op, attempt, command, solo>>
    /\ IF attempt[t] < MaxAttempts - 1
       THEN /\ pc' = [pc EXCEPT ![t] = "backoff"]
            /\ UNCHANGED <<relay_states, is_available,
                           last_successful_communication, lock, breakerVars,
                           result, last_response>>
       ELSE /\ RecordFailure
            /\ SendOver(t, TRUE)
            /\ FinishSend(t, op[t].kind, None, relay_states)

\* open_connection raises or times out
ConnectFails(t) ==
    /\ pc[t] = "connecting"
    /\ UNCHANGED <<configVars, coordVars, entity>>
    /\ AttemptFailed(t)
    /\ UNCHANGED coils

\* open_connection returns; the command is written and drained
ConnectSucceeds(t) ==
    /\ pc[t] = "connecting"
    /\ UNCHANGED <<configVars, coordVars, entity>>
    /\ state' = "connected"
    /\ pc' = [pc EXCEPT ![t] = "reading"]
    /\ solo' = IF solo.task = t
               THEN [solo EXCEPT !.frames = solo.frames + 1]
               ELSE solo
    /\ UNCHANGED <<hubVars, connection_lock, connection_waiters, breakerVars,
                   coils, op, attempt, command, result, last_response>>

\* a reply whose CRC trailer was damaged on the way
CorruptCrc(reply) ==
    [reply EXCEPT ![Len(reply)] = (reply[Len(reply)] + 1) % 256]

\* what reader.read can return: the device's reply, a cut reply, a damaged
\* reply, or nothing
Replies(reply) == {reply, SubSeq(reply, 1, 4), CorruptCrc(reply), <<>>}

\* what reader.read can return besides: a reply that lacks its last byte,
\* and a reply with one more byte after its header
OddReplies(reply) ==
    {SubSeq(reply, 1, Len(reply) - 1),
     SubSeq(reply, 1, 3) \o <<0>> \o SubSeq(reply, 4, Len(reply))}

\* reader.read returns; the connection is closed and the send returns
ReadReturns(t, processed) ==
    /\ pc[t] = "reading"
    /\ UNCHANGED <<configVars, coordVars, entity>>
    /\ \E bytes \in Replies(DeviceReply(coils, command[t])) :
          /\ processed \/ bytes = <<>>
          /\ FinishSend(t, op[t].kind, Some(bytes), relay_states)
    /\ coils' = IF processed THEN DeviceCoilsAfter(coils, command[t]) ELSE coils
    /\ state' = "disconnected"
    /\ connection_lock' = NoTask
    /\ RecordSuccess
    /\ SendOver(t, FALSE)
    /\ UNCHANGED <<connection_waiters, state_file, op, attempt, command, solo>>

\* reader.read times out or raises
ReadFails(t, processed) ==
    /\ pc[t] = "reading"
    /\ UNCHANGED <<configVars, coordVars, entity>>
    /\ coils' = IF processed THEN DeviceCoilsAfter(coils, command[t]) ELSE coils
    /\ AttemptFailed(t)

\* asyncio.sleep(delay) returns: the next iteration of the retry loop
BackoffDone(t) ==
    /\ pc[t] = "backoff"
    /\ UNCHANGED <<configVars, coordVars, entity>>
    /\ attempt' = [attempt EXCEPT ![t] = attempt[t] + 1]
    /\ EnterAttempt(t, connection_waiters)
    /\ UNCHANGED <<hubVars, breakerVars, coils, op, command, result,
                   last_response, solo>>

\* the operation of task t has returned: the task is free for its next call
TakesResult(t) ==
    /\ pc[t] = "done"
    /\ UNCHANGED <<configVars, coordVars>>
    /\ pc' = [pc EXCEPT ![t] = "idle"]
    /\ op' = [op EXCEPT ![t] = NoOp]
    /\ attempt' = [attempt EXCEPT ![t] = 0]
    /\ command' = [command EXCEPT ![t] = <<>>]
    /\ result' = [result EXCEPT ![t] = "pending"]
    /\ last_response' = [last_response EXCEPT ![t] = None]
    /\ solo' = IF solo.task = t THEN NoSolo ELSE solo
    /\ UNCHANGED <<hubVars, connVars, breakerVars, coils>>

\* the caller takes the result; the task is free for its next call
Return(t) ==
    /\ TakesResult(t)
    /\ UNCHANGED entity

\* 15 seconds pass while the breaker is open
Tick ==
    /\ circuit_breaker_open
    /\ UNCHANGED <<configVars, coordVars, entity>>
    /\ since_failure <= RecoveryTimeout
    /\ since_failure' = since_failure + 1
    /\ UNCHANGED <<hubVars, connVars, failure_count, circuit_breaker_open,
                   half_open_calls, trial, exhausted_run, coils, pc, op,
                   attempt, command, result, last_response, solo>>

Next ==
    \/ \E t \in Writers, n \in RelayArgs, v \in BOOLEAN : CallSetRelay(t, n, v)
    \/ \E t \in Pollers : CallReadStatus(t)
    \/ \E t \in Tasks : ConnectionGranted(t)
    \/ \E t \in Tasks : ConnectFails(t)
    \/ \E t \in Tasks : ConnectSucceeds(t)
    \/ \E t \in Tasks, processed \in BOOLEAN : ReadReturns(t, processed)
    \/ \E t \in Tasks, processed \in BOOLEAN : ReadFails(t, processed)
    \/ \E t \in Tasks : BackoffDone(t)
    \/ \E t \in Tasks : Return(t)
    \/ Tick

Spec == Init /\ [][Next]_vars

\* ------------------------------------------------------------------------
\* The same program with writer.drain() as a suspension point of its own,
\* for termination.  Spec takes the connect, the write and the drain as one
\* step, which changes no shared state in between.
\* ------------------------------------------------------------------------
LiveRelays == {1}

\* open_connection returns and writer.write(command) is called; the task
\* awaits writer.drain()
ConnectOpens(t) ==
    /\ pc[t] = "connecting"
    /\ UNCHANGED <<configVars, coordVars, entity>>
    /\ state' = "connected"
    /\ pc' = [pc EXCEPT ![t] = "draining"]
    /\ solo' = IF solo.task = t
               THEN [solo EXCEPT !.frames = solo.frames + 1]
               ELSE solo
    /\ UNCHANGED <<hubVars, connection_lock, connection_waiters, breakerVars,
                   coils, op, attempt, command, result, last_response>>

\* writer.drain() returns; the task awaits reader.read under its timeout
DrainReturns(t) ==
    /\ pc[t] = "draining"
    /\ UNCHANGED <<configVars, coordVars, entity>>
    /\ pc' = [pc EXCEPT ![t] = "reading"]
    /\ UNCHANGED <<hubVars, connVars, breakerVars, coils, op, attempt, command,
                   result, last_response, solo>>

\* writer.drain() raises
DrainFails(t) ==
    /\ pc[t] = "draining"
    /\ UNCHANGED <<configVars, coordVars, entity>>
    /\ AttemptFailed(t)
    /\ UNCHANGED coils

LiveSetRelay(t, n, v) ==
    /\ failure_count < MaxLiveFailures
    /\ CallSetRelay(t, n, v)

LiveReadStatus(t) ==
    /\ failure_count < MaxLiveFailures
    /\ CallReadStatus(t)

LiveNext ==
    \/ \E t \in Writers, n \in LiveRelays, v \in BOOLEAN : LiveSetRelay(t, n, v)
    \/ \E t \in Pollers : LiveReadStatus(t)
    \/ \E t \in Tasks : ConnectionGranted(t)
    \/ \E t \in Tasks : ConnectFails(t)
    \/ \E t \in Tasks : ConnectOpens(t)
    \/ \E t \in Tasks : DrainReturns(t)
    \/ \E t \in Tasks : DrainFails(t)
    \/ \E t \in Tasks, processed \in BOOLEAN : ReadReturns(t, processed)
    \/ \E t \in Tasks, processed \in BOOLEAN : ReadFails(t, processed)
    \/ \E t \in Tasks : BackoffDone(t)
    \/ \E t \in Tasks : Return(t)

\* what the code bounds: open_connection and reader.read run under
\* asyncio.wait_for(timeout), asyncio.sleep(delay) ends, and a released
\* asyncio.Lock goes to its first waiter.  Nothing bounds writer.drain().
LiveFairness ==
    \A t \in Tasks :
       /\ WF_vars(ConnectFails(t) \/ ConnectOpens(t))
       /\ WF_vars(\E processed \in BOOLEAN :
                     ReadReturns(t, processed) \/ ReadFails(t, processed))
       /\ WF_vars(BackoffDone(t))
       /\ WF_vars(ConnectionGranted(t))

LiveSpec == Init /\ [][LiveNext]_vars /\ LiveFairness

\* ------------------------------------------------------------------------
\* The hub driven by one task, each operation running to its end before
\* the next one starts: setup, restart, restore.
\* ------------------------------------------------------------------------
\* no operation is running
AllIdle == \A t \in Tasks : pc[t] = "idle"

sendVars == <<command, last_response, is_available,
              last_successful_communication, connVars, breakerVars, coils,
              attempt, solo>>

\* how a send_command(frame) run alone can go: response is what it
\* returns, frames whether an attempt wrote the frame, and processed
\* whether the device acted on it
\* (replies of another length are taken for status queries, where the hub
\* looks at the length; of the reply to a write it looks only at whether it
\* is empty)
Outcomes(frame) ==
    IF IsCircuitBreakerOpen
    THEN {[response |-> None, frames |-> 0, processed |-> FALSE]}
    ELSE IF reachable
    THEN {[response |-> Some(DeviceReply(coils, frame)), frames |-> 1,
           processed |-> TRUE]}
    ELSE {[response |-> None, frames |-> 0, processed |-> FALSE],
          [response |-> None, frames |-> 1, processed |-> FALSE],
          [response |-> None, frames |-> 1, processed |-> TRUE],
          [response |-> Some(<<>>), frames |-> 1, processed |-> FALSE]}
         \cup {[response |-> Some(bytes), frames |-> 1, processed |-> TRUE] :
                  bytes \in Replies(DeviceReply(coils, frame))
                            \cup IF frame[2] = 1
                                 THEN OddReplies(DeviceReply(coils, frame))
                                 ELSE {}}

\* send_command(frame) run alone, from the call to the return
SendCommandAlone(t, frame, outcome) ==
    /\ command' = [command EXCEPT ![t] = frame]
    /\ last_response' = [last_response EXCEPT ![t] = outcome.response]
    /\ is_available' = Truthy(outcome.response)
    /\ last_successful_communication' =
          IF Truthy(outcome.response) THEN "recent"
          ELSE last_successful_communication
    /\ solo' = [task |-> t, before |-> relay_states,
                frames |-> outcome.frames]
    /\ UNCHANGED <<connection_lock, connection_waiters, trial, attempt>>
    /\ IF IsCircuitBreakerOpen
       THEN UNCHANGED <<state, failure_count, circuit_breaker_open,
                        half_open_calls, since_failure, exhausted_run, coils>>
       ELSE /\ coils' = IF outcome.processed
                        THEN DeviceCoilsAfter(coils, frame) ELSE coils
            /\ state' = "disconnected"
            /\ half_open_calls' = IF circuit_breaker_open THEN 0
                                  ELSE half_open_calls
            /\ since_failure' = 0
            /\ IF outcome.response.isNone
               THEN /\ failure_count' = failure_count + 1
                    /\ circuit_breaker_open' =
                          (failure_count + 1 >= FailureThreshold)
                    /\ exhausted_run' = exhausted_run + 1
               ELSE /\ failure_count' = 0
                    /\ circuit_breaker_open' = FALSE
                    /\ exhausted_run' = 0

\* set_relay_state(relay_number, state) run alone, but for its result
SetRelayStateAlone(t, n, v) ==
    /\ AllIdle
    /\ failure_count < MaxFailures
    /\ pc' = [pc EXCEPT ![t] = "done"]
    /\ UNCHANGED <<lock, configVars>>
    /\ IF ValidateRelay(n) # "valid"
       THEN UNCHANGED <<relay_states, state_file, sendVars>>
       ELSE LET states == [relay_states EXCEPT ![n] = v]
            IN  /\ relay_states' = states
                /\ state_file' = SaveLastStates(states)
                /\ \E outcome \in Outcomes(WriteCommand(states)) :
                      SendCommandAlone(t, WriteCommand(states), outcome)

\* what set_relay_state(n, ...) of task t returns or raises, once it ran
SetRelayReturned(t, n) ==
    IF ValidateRelay(n) # "valid" THEN ValidateRelay(n)
    ELSE SetRelayResult(last_response[t])

\* an entity calls set_relay_state and the call runs alone
SetRelayAlone(t, n, v) ==
    /\ SetRelayStateAlone(t, n, v)
    /\ op' = [op EXCEPT ![t] = [kind |-> "set", n |-> n, v |-> v]]
    /\ result' = [result EXCEPT ![t] = SetRelayReturned(t, n)']
    /\ UNCHANGED <<coordVars, entity>>

\* read_relay_status() run alone, but for its result
ReadStatusAlone(t) ==
    /\ AllIdle
    /\ failure_count < MaxFailures
    /\ \E outcome \in Outcomes(QueryCommand) :
          /\ SendCommandAlone(t, QueryCommand, outcome)
          /\ relay_states' = IF InvalidStatus(outcome.response)
                             THEN relay_states
                             ELSE DecodeStatus(outcome.response.bytes)
    /\ pc' = [pc EXCEPT ![t] = "done"]
    /\ UNCHANGED <<state_file, lock, configVars>>

\* what read_relay_status of task t returns, once it ran
ReadStatusReturned(t) ==
    IF InvalidStatus(last_response[t]) THEN "None" ELSE "States"

\* create, or an entity, calls read_relay_status and the call runs alone
ReadAlone(t) ==
    /\ ReadStatusAlone(t)
    /\ op' = [op EXCEPT ![t] = [kind |-> "read", n |-> 0, v |-> FALSE]]
    /\ result' = [result EXCEPT ![t] = ReadStatusReturned(t)']
    /\ UNCHANGED <<coordVars, entity>>

\* any(self._relay_states)
AnyOn(states) == \E k \in 1..Len(states) : states[k]

\* restore_last_states() run alone
RestoreLastStates(t) ==
    /\ AllIdle
    /\ op' = [op EXCEPT ![t] = [kind |-> "restore", n |-> 0, v |-> FALSE]]
    /\ pc' = [pc EXCEPT ![t] = "done"]
    /\ UNCHANGED <<state_file, lock, configVars, coordVars, entity>>
    /\ IF ~restore_state
       THEN /\ result' = [result EXCEPT ![t] = "Returned"]
            /\ UNCHANGED <<relay_states, sendVars>>
       ELSE LET loaded == LoadLastStates(relay_states)
            IN  /\ relay_states' = loaded.states
                /\ IF loaded.raised # "none"
                   THEN /\ result' = [result EXCEPT ![t] = loaded.raised]
                        /\ UNCHANGED sendVars
                   ELSE /\ result' = [result EXCEPT ![t] = "Returned"]
                        /\ IF ~AnyOn(loaded.states)
                           THEN UNCHANGED sendVars
                           ELSE \E outcome \in
                                      Outcomes(WriteCommand(loaded.states)) :
                                   SendCommandAlone(t,
                                       WriteCommand(loaded.states), outcome)

\* the process ends and starts again: a new hub and a new coordinator are
\* constructed over the same configuration, state file and device
Restart ==
    /\ \A t \in Tasks : pc[t] \in {"idle", "done"}
    /\ relay_states' = AllOff
    /\ is_available' = TRUE
    /\ last_successful_communication' = "long_ago"
    /\ lock' = NoTask
    /\ connection_lock' = NoTask
    /\ connection_waiters' = <<>>
    /\ state' = "disconnected"
    /\ failure_count' = 0
    /\ circuit_breaker_open' = FALSE
    /\ half_open_calls' = 0
    /\ since_failure' = 0
    /\ pc' = [t \in Tasks |-> "idle"]
    /\ op' = [t \in Tasks |-> NoOp]
    /\ attempt' = [t \in Tasks |-> 0]
    /\ command' = [t \in Tasks |-> <<>>]
    /\ result' = [t \in Tasks |-> "pending"]
    /\ last_response' = [t \in Tasks |-> None]
    /\ trial' = NoTask
    /\ exhausted_run' = 0
    /\ solo' = NoSolo
    /\ consecutive_failures' = 0
    /\ current_poll_interval' = base_poll_interval
    /\ update_interval' = base_poll_interval
    /\ refresh_requests' = 0
    /\ failed_refreshes' = 0
    /\ UNCHANGED <<state_file, coils, configVars, entity>>

\* ------------------------------------------------------------------------
\* Persistence: hubs of 8 and 32 relays over every state file of StoreFiles
\* ------------------------------------------------------------------------
StoreRelayCounts == {8, 32}
StoreKeys == {<<"1">>, <<"2">>, <<"x">>}
StoreEntries == [key : StoreKeys, value : BOOLEAN]

\* no file, text that is no JSON, a JSON array, and the objects of up to
\* MaxEntries entries with distinct keys
StoreFiles ==
    {NoFile,
     [exists |-> TRUE, json |-> "invalid", items |-> <<>>],
     [exists |-> TRUE, json |-> "array", items |-> <<>>]}
    \cup {[exists |-> TRUE, json |-> "object", items |-> items] :
             items \in {<<>>} \cup {<<e>> : e \in StoreEntries}
                       \cup {<<e[1], e[2]>> :
                                e \in {f \in StoreEntries \X StoreEntries :
                                          f[1].key # f[2].key}}}

\* what the device holds when the hub is constructed
StoreCoils == {{}, {1}, {1, 2}}

\* a hub and its connection manager as the constructors leave them
HubConstructed ==
    /\ last_successful_communication = "long_ago"
    /\ relay_states = AllOff
    /\ is_available = TRUE
    /\ lock = NoTask
    /\ connection_lock = NoTask
    /\ connection_waiters = <<>>
    /\ state = "disconnected"
    /\ failure_count = 0
    /\ circuit_breaker_open = FALSE
    /\ half_open_calls = 0
    /\ since_failure = 0
    /\ pc = [t \in Tasks |-> "idle"]
    /\ op = [t \in Tasks |-> NoOp]
    /\ attempt = [t \in Tasks |-> 0]
    /\ command = [t \in Tasks |-> <<>>]
    /\ result = [t \in Tasks |-> "pending"]
    /\ last_response = [t \in Tasks |-> None]
    /\ trial = NoTask
    /\ exhausted_run = 0
    /\ solo = NoSolo

StoreInit ==
    /\ entity = NoEntity
    /\ reachable = FALSE
    /\ num_relays \in StoreRelayCounts
    /\ restore_state \in BOOLEAN
    /\ state_file \in IF restore_state THEN StoreFiles ELSE {NoFile}
    /\ coils \in {[k \in 1..num_relays |-> k \in on] : on \in StoreCoils}
    /\ CoordinatorInit(DefaultPollInterval)
    /\ HubConstructed

StoreNext ==
    \/ \E t \in Writers, n \in StoreRelayArgs, v \in BOOLEAN :
          SetRelayAlone(t, n, v)
    \/ \E t \in Writers : ReadAlone(t)
    \/ \E t \in Writers : RestoreLastStates(t)
    \/ \E t \in Writers : Return(t)
    \/ Restart

StoreSpec == StoreInit /\ [][StoreNext]_vars

\* ------------------------------------------------------------------------
\* WaveshareRelayCoordinator (src/coordinator.py) over a hub of 8 relays,
\* one operation at a time
\* ------------------------------------------------------------------------
CoordRelayCount == 8
BasePollIntervals == {5, 30, 300}
CoordRelayArgs == {1, 2}

\* hub.is_available
HubIsAvailable == is_available /\ last_successful_communication = "recent"

\* the fields of the coordinator that a refresh writes
Coordinator ==
    [consecutive_failures |-> consecutive_failures,
     current_poll_interval |-> current_poll_interval,
     update_interval |-> update_interval]

\* _handle_failure
HandleFailure(c) ==
    LET failures == c.consecutive_failures + 1
        interval == Min(base_poll_interval
                           * Pow2(failures - MaxConsecutiveFailures),
                        MaxPollInterval)
    IN  IF failures >= MaxConsecutiveFailures
        THEN [consecutive_failures |-> failures,
              current_poll_interval |-> interval,
              update_interval |-> interval]
        ELSE [c EXCEPT !.consecutive_failures = failures]

\* _async_update_data where it fails: _handle_failure() before
\* raise UpdateFailed, and _handle_failure() again in the except Exception
\* clause that catches the UpdateFailed
RefreshFailed(c) == HandleFailure(HandleFailure(c))

RefreshSucceededCounterOnly(c) == [c EXCEPT !.consecutive_failures = 0]

\* _async_update_data where it succeeds
RefreshSucceeded(c) ==
    [consecutive_failures |-> 0,
     current_poll_interval |-> base_poll_interval,
     update_interval |-> base_poll_interval]

\* the refresh of task t ends: its result and the coordinator's fields
RefreshEnds(t, failed) ==
    LET c == IF failed THEN RefreshFailed(Coordinator)
             ELSE RefreshSucceeded(Coordinator)
    IN  /\ failed => failed_refreshes < MaxFailedRefreshes
        /\ result' = [result EXCEPT
                         ![t] = IF failed THEN "UpdateFailed" ELSE "Data"]
        /\ failed_refreshes' = IF failed THEN failed_refreshes + 1 ELSE 0
        /\ consecutive_failures' = c.consecutive_failures
        /\ current_poll_interval' = c.current_poll_interval
        /\ update_interval' = c.update_interval

\* _async_update_data; op.n keeps the failure counter the refresh began with
Refresh(t) ==
    /\ AllIdle
    /\ op' = [op EXCEPT ![t] = [kind |-> "refresh",
                                n |-> consecutive_failures, v |-> FALSE]]
    /\ UNCHANGED <<refresh_requests, entity>>
    /\ IF ~HubIsAvailable
       THEN /\ pc' = [pc EXCEPT ![t] = "done"]
            /\ RefreshEnds(t, TRUE)
            /\ UNCHANGED <<relay_states, state_file, lock, configVars,
                           sendVars>>
       ELSE /\ ReadStatusAlone(t)
            /\ RefreshEnds(t, ReadStatusReturned(t)' = "None")

RequestsAfterAlways(returned) == refresh_requests + 1

\* async_set_relay_state: the calls of async_request_refresh after it
RequestsAfter(returned) ==
    IF returned = "True" THEN refresh_requests + 1 ELSE refresh_requests

\* async_set_relay_state: what it returns when set_relay_state returned or
\* raised `returned`
CoordinatorReturn(returned) == IF returned = "True" THEN "True" ELSE "False"

\* async_set_relay_state(relay_number, state)
CoordinatorSetRelay(t, n, v) ==
    /\ refresh_requests < MaxRefreshRequests
    /\ SetRelayStateAlone(t, n, v)
    /\ op' = [op EXCEPT ![t] = [kind |-> "coordinator_set", n |-> n, v |-> v]]
    /\ result' = [result EXCEPT
                     ![t] = CoordinatorReturn(SetRelayReturned(t, n)')]
    /\ refresh_requests' = RequestsAfter(SetRelayReturned(t, n)')
    /\ UNCHANGED <<consecutive_failures, current_poll_interval,
                   update_interval, failed_refreshes, entity>>

\* 300 seconds pass without a successful communication
CommunicationAges ==
    /\ AllIdle
    /\ last_successful_communication = "recent"
    /\ last_successful_communication' = "long_ago"
    /\ UNCHANGED <<relay_states, state_file, is_available, lock, connVars,
                   breakerVars, coils, pc, op, attempt, command, result,
                   last_response, solo, configVars, coordVars, entity>>

CoordInit ==
    /\ entity = NoEntity
    /\ reachable = FALSE
    /\ num_relays = CoordRelayCount
    /\ restore_state = TRUE
    /\ state_file = NoFile
    /\ coils = AllOff
    /\ \E poll_interval \in BasePollIntervals : CoordinatorInit(poll_interval)
    /\ HubConstructed

CoordNext ==
    \/ \E t \in Pollers : Refresh(t)
    \/ \E t \in Writers, n \in CoordRelayArgs, v \in BOOLEAN :
          CoordinatorSetRelay(t, n, v)
    \/ \E t \in Writers : ReadAlone(t)
    \/ \E t \in Tasks : Return(t)
    \/ CommunicationAges

CoordSpec == CoordInit /\ [][CoordNext]_vars

\* ------------------------------------------------------------------------
\* The codec: hubs of 8, 16 and 32 relays writing and reading a device whose
\* relays of CodecRelays are on or off, at most MaxOn of them on at the start
\* ------------------------------------------------------------------------
CodecRelayCounts == {8, 12, 16, 32}
CodecRelays == {1, 3, 9, 32}

CodecInit ==
    /\ entity = NoEntity
    /\ reachable = FALSE
    /\ num_relays \in CodecRelayCounts
    /\ restore_state = FALSE
    /\ state_file = NoFile
    /\ coils \in {[k \in 1..num_relays |-> k \in on] :
                    on \in {S \in SUBSET CodecRelays : Cardinality(S) <= MaxOn}}
    /\ CoordinatorInit(DefaultPollInterval)
    /\ HubConstructed

CodecNext ==
    \/ \E t \in Writers, n \in ConfiguredRelays, v \in BOOLEAN :
          SetRelayAlone(t, n, v)
    \/ \E t \in Writers : ReadAlone(t)
    \/ \E t \in Writers : Return(t)

CodecSpec == CodecInit /\ [][CodecNext]_vars

\* ------------------------------------------------------------------------
\* The entities: WaveshareRelaySwitch (src/switch.py) and WaveshareRelayLight
\* (src/light.py) over a hub of 8 relays, one hub call at a time
\* ------------------------------------------------------------------------
EntityRelayCount == 8
EntityKinds == {"switch", "light"}
EntityAddresses == {1, 9}
MaxRetries == 3

\* WaveshareRelaySwitch.__init__, WaveshareRelayLight.__init__
EntityConstructed(kind, address) ==
    [NoEntity EXCEPT !.kind = kind, !.address = address]

\* await self._hub.set_relay_state(self._address, v), the call running
\* alone
EntityCallsSetRelay(t, v) ==
    \E n \in {entity.address} :
       /\ SetRelayStateAlone(t, n, v)
       /\ op' = [op EXCEPT ![t] = [kind |-> "set", n |-> n, v |-> v]]
       /\ result' = [result EXCEPT ![t] = SetRelayReturned(t, n)']
       /\ UNCHANGED coordVars

\* WaveshareRelaySwitch.async_turn_on (v true) and async_turn_off (v false)
\* after set_relay_state returned or raised
SwitchAfter(e, v, returned) ==
    [e EXCEPT !.target_state = v,
              !.calls = 1,
              !.reported = {returned},
              !.attr_is_on = IF returned = "True" THEN v ELSE @,
              !.writes = IF returned = "True" THEN 1 ELSE 0]

\* WaveshareRelaySwitch.async_turn_on (v true) and async_turn_off (v false);
\* a ValueError of set_relay_state leaves the method
SwitchTurn(t, v) ==
    /\ entity.kind = "switch"
    /\ EntityCallsSetRelay(t, v)
    /\ entity' = SwitchAfter(entity, v, result'[t])

\* WaveshareRelayLight.async_turn_on and async_turn_off after
\* _execute_command returned success: the attribute, then
\* async_write_ha_state
TurnEnds(e, success) ==
    [e EXCEPT !.attr_is_on = IF success THEN e.target_state ELSE @,
              !.writes = @ + 1,
              !.position = "idle"]

\* _execute_command after the set_relay_state call of the given attempt
\* returned or raised
AfterCommand(e, a, returned) ==
    LET counted == [e EXCEPT !.calls = @ + 1,
                             !.reported = @ \cup {returned}]
    IN  IF returned = "True"
        THEN LET ok == [counted EXCEPT !.last_command_success = TRUE,
                                       !.command_retries = a]
             IN  IF a = 0 THEN [ok EXCEPT !.position = "verify"]
                 ELSE TurnEnds(ok, TRUE)
        ELSE LET failed == [counted EXCEPT !.command_retries = a + 1]
             IN  IF a < MaxRetries - 1
                 THEN [failed EXCEPT !.position = "command",
                                     !.attempt = a + 1]
                 ELSE TurnEnds([failed EXCEPT !.last_command_success = FALSE],
                               FALSE)

\* WaveshareRelayLight.async_turn_on (v true) and async_turn_off (v false),
\* to the end of the first set_relay_state call of _execute_command
LightTurn(t, v) ==
    /\ entity.kind = "light"
    /\ entity.position = "idle"
    /\ EntityCallsSetRelay(t, v)
    /\ entity' = AfterCommand([entity EXCEPT !.target_state = v,
                                             !.command_retries = 0,
                                             !.attempt = 0,
                                             !.calls = 0,
                                             !.writes = 0,
                                             !.reported = {}],
                              0, result'[t])

\* the next iteration of the loop of _execute_command
LightRetry(t) ==
    /\ entity.kind = "light"
    /\ entity.position = "command"
    /\ EntityCallsSetRelay(t, entity.target_state)
    /\ entity' = AfterCommand(entity, entity.attempt, result'[t])

\* _verify_state, and the rest of the turn
LightVerify(t) ==
    /\ entity.kind = "light"
    /\ entity.position = "verify"
    /\ ReadStatusAlone(t)
    /\ op' = [op EXCEPT ![t] = [kind |-> "read", n |-> 0, v |-> FALSE]]
    /\ result' = [result EXCEPT ![t] = ReadStatusReturned(t)']
    /\ entity' = TurnEnds(entity, TRUE)
    /\ UNCHANGED coordVars

EntityInit ==
    /\ reachable = FALSE
    /\ entity \in {EntityConstructed(kind, address) :
                      kind \in EntityKinds, address \in EntityAddresses}
    /\ num_relays = EntityRelayCount
    /\ restore_state = FALSE
    /\ state_file = NoFile
    /\ coils = AllOff
    /\ CoordinatorInit(DefaultPollInterval)
    /\ HubConstructed

EntityNext ==
    \/ \E t \in Writers, v \in BOOLEAN : SwitchTurn(t, v)
    \/ \E t \in Writers, v \in BOOLEAN : LightTurn(t, v)
    \/ \E t \in Writers : LightRetry(t)
    \/ \E t \in Writers : LightVerify(t)
    \/ \E t \in Writers : Return(t)

EntitySpec == EntityInit /\ [][EntityNext]_vars

\* ------------------------------------------------------------------------
\* Polling on the coordinator's timer, before and after the device becomes
\* reachable for good.  The failure counter is held at MaxCountedFailures,
\* from where on the poll interval stays at MaxPollInterval.  Less than 300
\* seconds pass between a successful communication and the next call, so
\* that hub.is_available turns false only through a send that fails.
\* ------------------------------------------------------------------------
MaxCountedFailures == 8

\* the device becomes reachable and stays so
DeviceRecovers ==
    /\ ~reachable
    /\ reachable' = TRUE
    /\ UNCHANGED <<hubVars, connVars, breakerVars, coils, pc, op, attempt,
                   command, result, last_response, solo, num_relays,
                   restore_state, base_poll_interval, coordVars, entity>>

\* the coordinator's fields with the failure counter held
Held(c) ==
    [c EXCEPT !.consecutive_failures = Min(@, MaxCountedFailures)]

\* the refresh of task t ends
PollRefreshEnds(t, failed) ==
    LET c == IF failed THEN Held(RefreshFailed(Coordinator))
             ELSE RefreshSucceeded(Coordinator)
    IN  /\ result' = [result EXCEPT
                         ![t] = IF failed THEN "UpdateFailed" ELSE "Data"]
        /\ failed_refreshes' =
              IF failed THEN Min(failed_refreshes + 1, MaxFailedRefreshes)
              ELSE 0
        /\ consecutive_failures' = c.consecutive_failures
        /\ current_poll_interval' = c.current_poll_interval
        /\ update_interval' = c.update_interval

\* _async_update_data, called when the update interval has passed
PollRefresh(t) ==
    /\ AllIdle
    /\ op' = [op EXCEPT ![t] = [kind |-> "refresh",
                                n |-> consecutive_failures, v |-> FALSE]]
    /\ UNCHANGED <<refresh_requests, entity>>
    /\ IF ~HubIsAvailable
       THEN /\ pc' = [pc EXCEPT ![t] = "done"]
            /\ PollRefreshEnds(t, TRUE)
            /\ UNCHANGED <<relay_states, state_file, lock, configVars,
                           sendVars>>
       ELSE /\ ReadStatusAlone(t)
            /\ PollRefreshEnds(t, ReadStatusReturned(t)' = "None")

\* the hub as create leaves it when its read_relay_status succeeded, which
\* the setup of the entry goes on from (a first refresh that fails ends it)
HubCreated ==
    /\ last_successful_communication = "recent"
    /\ relay_states = DecodeStatus(DeviceReadCoils(coils, num_relays))
    /\ is_available = TRUE
    /\ lock = NoTask
    /\ connection_lock = NoTask
    /\ connection_waiters = <<>>
    /\ state = "disconnected"
    /\ failure_count = 0
    /\ circuit_breaker_open = FALSE
    /\ half_open_calls = 0
    /\ since_failure = 0
    /\ pc = [t \in Tasks |-> "idle"]
    /\ op = [t \in Tasks |-> NoOp]
    /\ attempt = [t \in Tasks |-> 0]
    /\ command = [t \in Tasks |-> <<>>]
    /\ result = [t \in Tasks |-> "pending"]
    /\ last_response = [t \in Tasks |-> None]
    /\ trial = NoTask
    /\ exhausted_run = 0
    /\ solo = NoSolo

PollInit ==
    /\ entity = NoEntity
    /\ reachable = FALSE
    /\ num_relays = CoordRelayCount
    /\ restore_state = TRUE
    /\ state_file = NoFile
    /\ coils = AllOff
    /\ CoordinatorInit(DefaultPollInterval)
    /\ HubCreated

PollNext ==
    \/ \E t \in Pollers : PollRefresh(t)
    \/ \E t \in Writers : ReadAlone(t)
    \/ \E t \in Tasks : Return(t)
    \/ Tick
    \/ DeviceRecovers

\* every caller takes the result of its call, and time passes
PollFairness ==
    /\ \A t \in Tasks : WF_vars(Return(t))
    /\ WF_vars(Tick)

PollSpec == PollInit /\ [][PollNext]_vars /\ PollFairness

\* ------------------------------------------------------------------------
\* The concurrent hub of 16 relays under the switch of relay 1, a second
\* entity that sets relay 9, and the polling task.  The entities share one
\* task: a set_relay_state call starts after the previous one has returned.
\* ------------------------------------------------------------------------
PairRelays == {1, 9}

\* the set_relay_state call of the switch returns to async_turn_on or
\* async_turn_off
SwitchReturns(t) ==
    /\ op[t].kind = "set"
    /\ op[t].n = entity.address
    /\ TakesResult(t)
    /\ entity' = SwitchAfter(entity, op[t].v, result[t])

\* any other call returns
OtherReturns(t) ==
    /\ ~(op[t].kind = "set" /\ op[t].n = entity.address)
    /\ Return(t)

PairInit ==
    /\ reachable = FALSE
    /\ entity = EntityConstructed("switch", 1)
    /\ num_relays = NumRelays
    /\ restore_state = TRUE
    /\ state_file = NoFile
    /\ coils = AllOff
    /\ CoordinatorInit(DefaultPollInterval)
    /\ HubConstructed

PairNext ==
    \/ \E t \in Writers, n \in PairRelays, v \in BOOLEAN : LiveSetRelay(t, n, v)
    \/ \E t \in Pollers : LiveReadStatus(t)
    \/ \E t \in Tasks : ConnectionGranted(t)
    \/ \E t \in Tasks : ConnectFails(t)
    \/ \E t \in Tasks : ConnectSucceeds(t)
    \/ \E t \in Tasks, processed \in BOOLEAN : ReadReturns(t, processed)
    \/ \E t \in Tasks, processed \in BOOLEAN : ReadFails(t, processed)
    \/ \E t \in Tasks : BackoffDone(t)
    \/ \E t \in Writers : SwitchReturns(t)
    \/ \E t \in Tasks : OtherReturns(t)

PairSpec == PairInit /\ [][PairNext]_vars

TypeOK ==
    /\ Len(relay_states) = num_relays
    /\ failure_count \in 0..(MaxFailures + Cardinality(Tasks))
    /\ since_failure \in 0..(RecoveryTimeout + 1)
    /\ \A t \in Tasks : attempt[t] \in 0..(MaxAttempts - 1)

\* ------------------------------------------------------------------------
\* Steps and values the properties speak about
\* ------------------------------------------------------------------------
Failures == {"False", "None"}

\* task t calls a hub operation in this step
Calls(t) == pc[t] = "idle" /\ pc'[t] # "idle"

\* task t calls an operation that passes validation in this step
CallsSend(t) == Calls(t) /\ result'[t] \notin ValidationErrors

\* the last attempt of task t's send raises in this step
Exhausts(t) ==
    /\ pc[t] \in {"connecting", "reading"}
    /\ attempt[t] = MaxAttempts - 1
    /\ exhausted_run' = exhausted_run + 1

\* the breaker is Open and the recovery timeout has not elapsed
OpenNotElapsed == circuit_breaker_open /\ since_failure <= RecoveryTimeout

\* the vector a set_relay_state call running alone must leave behind
Requested(t) == [solo.before EXCEPT ![op[t].n] = op[t].v]

\* the payload of the wire format: relay i in bit (i-1) mod 8 of byte (i-1) div 8
LittleEndianBytes(states) ==
    [k \in 1..ByteSize |->
        LET bit(b) == IF 8 * (k - 1) + b + 1 <= Len(states)
                         /\ states[8 * (k - 1) + b + 1]
                      THEN Pow2(b) ELSE 0
        IN  bit(0) + bit(1) + bit(2) + bit(3) + bit(4) + bit(5) + bit(6) + bit(7)]

\* the write frame of the wire format for a vector
WireWriteFrame(states) ==
    LET body == <<DeviceAddress, 15, 0, 0, 0, num_relays, ByteSize>>
                \o LittleEndianBytes(states)
    IN  body \o calculate_crc(body)

\* task t is inside an attempt: between entering _send_command_single under
\* the connection lock and leaving it
InSession(t) == pc[t] \in {"connecting", "draining", "reading"}

\* the operation of task t ends in this step
Ends(t) == pc[t] # "done" /\ pc'[t] = "done"

\* the last two bytes are the CRC-16/MODBUS of the bytes before them
CrcOk(bytes) ==
    /\ Len(bytes) >= 3
    /\ SubSeq(bytes, Len(bytes) - 1, Len(bytes))
          = calculate_crc(SubSeq(bytes, 1, Len(bytes) - 2))

\* a response that is no well-formed frame: too short, or a wrong CRC trailer
Malformed(response) ==
    /\ ~response.isNone
    /\ Len(response.bytes) > 0
    /\ (Len(response.bytes) < 5 \/ ~CrcOk(response.bytes))

\* set_relay_state of task t passes validation in this step: it saves
Saves(t) ==
    /\ pc[t] = "idle"
    /\ pc'[t] # "idle"
    /\ op'[t].kind = "set"
    /\ result'[t] \notin ValidationErrors

\* restore_last_states of task t runs in this step
Restores(t) == pc[t] = "idle" /\ op'[t].kind = "restore"

\* a state file that is present and malformed: no JSON, no JSON object, or
\* an object with a key that is no number
MalformedFile ==
    /\ state_file.exists
    /\ \/ state_file.json # "object"
       \/ \E i \in 1..Len(state_file.items) :
             ~IsNumeral(state_file.items[i].key)

\* nothing was persisted: restore disabled, no state file, or an object
\* none of whose values is true
NothingPersisted ==
    \/ ~restore_state
    \/ ~state_file.exists
    \/ /\ state_file.json = "object"
       /\ \A i \in 1..Len(state_file.items) : ~state_file.items[i].value

\* _async_update_data of task t runs in this step
Refreshes(t) == pc[t] = "idle" /\ op'[t].kind = "refresh"

\* async_set_relay_state of task t runs in this step
CoordinatorSets(t) == pc[t] = "idle" /\ op'[t].kind = "coordinator_set"

\* the set_relay_state call of task t passed validation and its send
\* returned a response
SetSucceeded(t) ==
    /\ ValidateRelay(op[t].n) = "valid"
    /\ ~last_response[t].isNone

\* task t builds a write command in this step
BuildsWriteCommand(t) ==
    /\ command[t] = <<>>
    /\ command'[t] # <<>>
    /\ command'[t][2] = 15

\* the poll ticks repeat: the update coordinator calls _async_update_data
\* again and again, each time the update interval has passed
PollTicksRepeat ==
    /\ []<>(\A t \in Pollers : pc[t] = "idle")
    /\ []<>(\E t \in Pollers : pc[t] = "done" /\ op[t].kind = "refresh")

\* bit b (0 the least significant) of a byte
BitOf(byte, b) == (byte \div Pow2(b)) % 2

\* the vector of an 8-relay hub with exactly relays 1 and 3 on
OneAndThree == [k \in 1..8 |-> k \in {1, 3}]

\* ------------------------------------------------------------------------
\* Properties
\* ------------------------------------------------------------------------

\* C1: every send that exhausts its attempts raises failure_count by exactly
\* one; after FailureThreshold such sends in a row (no send returning a
\* response in between) the breaker is open and connection_stats says so;
\* with fewer than FailureThreshold in a row the breaker is not open.
C1_BreakerOpensAtThreshold ==
    [][ /\ \A t \in Tasks :
              Exhausts(t) =>
                 /\ failure_count' = failure_count + 1
                 /\ (exhausted_run' >= FailureThreshold
                        => ConnectionStats.circuit_breaker_open')
        /\ (exhausted_run' < FailureThreshold => ~circuit_breaker_open')
      ]_vars

C1_Witness ==
    /\ exhausted_run = FailureThreshold
    /\ circuit_breaker_open
    /\ \E t \in Tasks : pc[t] = "done" /\ attempt[t] = MaxAttempts - 1

\* C2: a send issued while the breaker is Open and the recovery timeout has
\* not elapsed fails at once: no connection attempt, no retry, no backoff
\* sleep, and failure_count and the breaker are left as they were.
C2_OpenBreakerFailsFast ==
    [][ \A t \in Tasks :
           (CallsSend(t) /\ OpenNotElapsed) =>
              /\ pc'[t] = "done"
              /\ result'[t] \in Failures
              /\ attempt'[t] = 0
              /\ UNCHANGED <<connection_lock, connection_waiters, state>>
              /\ UNCHANGED <<failure_count, circuit_breaker_open,
                             since_failure>>
      ]_vars

C2_Witness ==
    \E t \in Tasks :
       /\ pc[t] = "done"
       /\ result[t] \in Failures
       /\ attempt[t] = 0
       /\ OpenNotElapsed
       /\ state = "disconnected"

\* C3: while the trial send that ended the Open state is in flight, every
\* other send is rejected without a connection attempt.
C3_OneTrialOnly ==
    [][ \A t \in Tasks :
           (CallsSend(t) /\ trial # NoTask /\ trial # t) =>
              /\ pc'[t] = "done"
              /\ result'[t] \in Failures
      ]_vars

\* C4: read_relay_status never replaces the vector between the mutation of a
\* set_relay_state call and the end of that call's transmission (the time the
\* call holds self._lock).
C4_NoReadInsideWrite ==
    [][ lock # NoTask => relay_states' = relay_states ]_vars

\* C5: set_relay_state returns True if and only if the send returned a
\* non-empty response.
C5_SuccessIffNonEmptyResponse ==
    [][ \A t \in Writers :
           (pc[t] # "done" /\ pc'[t] = "done"
              /\ result'[t] \notin ValidationErrors) =>
              (result'[t] = "True" <=> is_available')
      ]_vars

\* C6: an attempt whose read returns no usable response ends the send only
\* when it was the last attempt, and then counts as a failure: failure_count
\* is not reset and the breaker is not closed.
C6_EmptyReadIsFailedAttempt ==
    [][ \A t \in Tasks :
           (pc[t] = "reading" /\ pc'[t] = "done" /\ ~is_available') =>
              /\ attempt[t] = MaxAttempts - 1
              /\ failure_count' = failure_count + 1
              /\ (circuit_breaker_open => circuit_breaker_open')
      ]_vars

\* C7: set_relay_state(n, v) raises the out-of-range error exactly when
\* n < 1 or n > NumRelays, configured or not, and the not-configured error
\* exactly when n is in range and not configured.
C7_Validation ==
    \A t \in Writers :
       (op[t].kind = "set" /\ pc[t] # "idle") =>
          /\ (result[t] = "OutOfRange"
                <=> (op[t].n < 1 \/ op[t].n > NumRelays))
          /\ (result[t] = "NotConfigured"
                <=> (1 <= op[t].n /\ op[t].n <= NumRelays
                       /\ op[t].n \notin ConfiguredRelays))

C7_Witness ==
    \E t \in Writers :
       /\ pc[t] = "done"
       /\ result[t] = "OutOfRange"
       /\ op[t].n \in ConfiguredRelays

\* C8: a set_relay_state call rejected by validation ends at once and changes
\* nothing: not the vector, the state file, the frame, the connection, the
\* failure count, the breaker or the device.
C8_RejectedCallHasNoEffect ==
    [][ \A t \in Writers :
           (Calls(t) /\ result'[t] \in ValidationErrors) =>
              /\ pc'[t] = "done"
              /\ UNCHANGED <<relay_states, state_file, is_available, lock>>
              /\ UNCHANGED <<connection_lock, connection_waiters, state>>
              /\ UNCHANGED <<failure_count, circuit_breaker_open,
                             since_failure, coils>>
              /\ command'[t] = <<>> /\ attempt'[t] = 0
      ]_vars

C8_Witness ==
    \E t \in Writers :
       /\ pc[t] = "done"
       /\ result[t] = "NotConfigured"
       /\ state_file.exists
       /\ \E n \in SavedRelays : relay_states[n]
       /\ failure_count > 0

\* C9: when a valid set_relay_state(n, v) fails in transmission (attempts
\* exhausted or breaker open) it returns False, and if nothing else ran in
\* between the vector has entry n equal to v and every other entry as before.
C9_FailedSetKeepsMutation ==
    [][ \A t \in Writers :
           ((Exhausts(t) /\ pc'[t] = "done") \/ (CallsSend(t) /\ OpenNotElapsed))
              => /\ result'[t] = "False"
                 /\ (solo'.task = t => relay_states' = Requested(t)')
      ]_vars

C9_Witness ==
    \E t \in Writers :
       /\ pc[t] = "done"
       /\ result[t] = "False"
       /\ solo.task = t
       /\ solo.before[op[t].n] # op[t].v
       /\ relay_states[op[t].n] = op[t].v

\* C10: a set_relay_state(n, v) that succeeds with nothing else in between
\* has transmitted exactly one write frame, the frame of the wire format for
\* the vector with relay n at v and the other relays as before, and leaves
\* that vector in memory.
C10_SuccessfulSetFrame ==
    \A t \in Writers :
       (pc[t] = "done" /\ result[t] = "True" /\ is_available
          /\ solo.task = t) =>
          /\ solo.frames = 1
          /\ command[t] = WireWriteFrame(Requested(t))
          /\ relay_states = Requested(t)

\* C11: whenever the breaker is not open, failure_count is below
\* FailureThreshold (the count is reset on every way out of the Open state).
C11_ClosedMeansBelowThreshold ==
    ~circuit_breaker_open => failure_count < FailureThreshold

\* C12: every step of a task that changes the vector is taken by a task that
\* holds self._lock (held before the step, taken in it, or taken and released
\* inside a set_relay_state call that ends in the same step).
C12_VectorWrittenUnderLock ==
    [][ \A t \in Tasks :
           (pc'[t] # pc[t] /\ relay_states' # relay_states) =>
              \/ lock = t
              \/ lock' = t
              \/ (Calls(t) /\ op'[t].kind = "set")
      ]_vars

\* C13: at most one task is inside an attempt (connecting or with its
\* connection open) at any time, and that task holds the connection lock.
C13_OneSessionAtATime ==
    \A t \in Tasks :
       InSession(t) =>
          /\ connection_lock = t
          /\ \A u \in Tasks : InSession(u) => u = t

C13_Witness ==
    \E t, u \in Tasks :
       /\ pc[t] = "reading"
       /\ pc[u] = "wait_connection"
       /\ attempt[u] > 0

\* C14: whenever no task is inside an attempt the connection state is
\* Disconnected, and the state is Connected only while a task has its
\* connection open.
C14_ClosedOnEveryExit ==
    /\ (\A t \in Tasks : ~InSession(t)) => state = "disconnected"
    /\ state = "connected" => \E t \in Tasks : pc[t] = "reading"

C14_Witness ==
    /\ \A t \in Tasks : ~InSession(t)
    /\ state = "disconnected"
    /\ \E t \in Tasks : pc[t] = "done" /\ Truthy(last_response[t])
    /\ \E t \in Tasks : pc[t] = "backoff"

C16_AttemptBudget ==
    [][ \A t \in Tasks :
           /\ attempt'[t] <= MaxAttempts - 1
           /\ (pc[t] = "reading" /\ ~last_response'[t].isNone)
                 => pc'[t] = "done"
           /\ (InSession(t) /\ Ends(t) /\ last_response'[t].isNone)
                 => attempt[t] = MaxAttempts - 1
           /\ (pc'[t] = "backoff" /\ pc[t] # "backoff")
                 => (InSession(t) /\ attempt[t] < MaxAttempts - 1)
      ]_vars

C16_Witness ==
    \E t \in Tasks :
       /\ pc[t] = "done"
       /\ last_response[t].isNone
       /\ attempt[t] = MaxAttempts - 1
       /\ failure_count = 1

\* C17: an operation that passed validation and whose send brought no usable
\* response (attempts exhausted, breaker open, or an empty read) returns its
\* failure value: False from set_relay_state, None from read_relay_status.
C17_TransportFailureIsFailureValue ==
    [][ \A t \in Tasks :
           (Ends(t) /\ result'[t] \notin ValidationErrors
              /\ ~Truthy(last_response'[t])) =>
              result'[t] = IF op'[t].kind = "set" THEN "False" ELSE "None"
      ]_vars

\* C18: an attempt whose read returns a malformed response (too short or with
\* a wrong CRC trailer) is a failed attempt: it ends the send only as the last
\* attempt, counts as a failure, and the operation returns its failure value.
C18_MalformedIsFailedAttempt ==
    [][ \A t \in Tasks :
           (pc[t] = "reading" /\ Ends(t) /\ Malformed(last_response'[t])) =>
              /\ attempt[t] = MaxAttempts - 1
              /\ failure_count' = failure_count + 1
              /\ result'[t] \in Failures
      ]_vars

\* C19: a read_relay_status whose send yields no response, an empty response
\* or one shorter than 5 + ByteSize bytes returns None and leaves the vector
\* as it was.
C19_ShortReadKeepsVector ==
    [][ \A t \in Pollers :
           (Ends(t) /\ (\/ last_response'[t].isNone
                        \/ Len(last_response'[t].bytes) < 5 + ByteSize)) =>
              /\ result'[t] = "None"
              /\ relay_states' = relay_states
      ]_vars

C19_Witness ==
    \E t \in Pollers :
       /\ pc[t] = "done"
       /\ result[t] = "None"
       /\ ~last_response[t].isNone
       /\ Len(last_response[t].bytes) = 4
       /\ \E k \in 1..NumRelays : relay_states[k]

\* C20: after a set_relay_state call that ran alone and failed in
\* transmission, the state file does not record the value the call asked for
\* (the file is written only after the acknowledgement).
C20_FileOnlyAfterAck ==
    \A t \in Writers :
       (pc[t] = "done" /\ result[t] = "False" /\ solo.task = t
          /\ solo.before[op[t].n] # op[t].v) =>
          ~(state_file.exists
              /\ \E i \in 1..Len(state_file.items) :
                    state_file.items[i] = [key |-> Str(op[t].n),
                                           value |-> op[t].v])

\* C21: whenever set_relay_state saves the vector, loading the file it wrote
\* into a fresh store (all off) with the same configured relays raises
\* nothing and gives every configured relay in 1..num_relays the value the
\* saving store holds.
C21_RoundTrip ==
    [][\A t \in Writers :
          (Saves(t) /\ restore_state) =>
             /\ (LoadLastStates(AllOff).raised = "none")'
             /\ \A n \in SavedRelays :
                   (LoadLastStates(AllOff).states[n] = relay_states[n])']_vars

C21_Witness ==
    \E t \in Writers :
       /\ pc[t] = "done"
       /\ op[t].kind = "set"
       /\ restore_state
       /\ num_relays = 32
       /\ relay_states[17]
       /\ ~relay_states[1]
       /\ state_file = SaveLastStates(relay_states)
       /\ LoadLastStates(AllOff).states[17]

\* C22: the state file is only ever written with entries whose keys are
\* numbers of configured relays, and restore_last_states (through
\* _load_last_states) never changes the vector entry of a relay that is not
\* configured, whatever the file holds.
C22_OnlyConfiguredRelays ==
    [][/\ state_file' # state_file =>
             \A i \in 1..Len(state_file'.items) :
                /\ IsNumeral(state_file'.items[i].key)
                /\ ParseInt(state_file'.items[i].key) \in ConfiguredRelays
       /\ \A t \in Writers :
             Restores(t) =>
                \A k \in 1..Len(relay_states) :
                   k \notin ConfiguredRelays =>
                      relay_states'[k] = relay_states[k]]_vars

C22_Witness ==
    \E t \in Writers :
       /\ pc[t] = "done"
       /\ op[t].kind = "restore"
       /\ result[t] = "Returned"
       /\ state_file.exists
       /\ state_file.items = <<[key |-> <<"1">>, value |-> TRUE],
                               [key |-> <<"2">>, value |-> TRUE]>>
       /\ relay_states[1]
       /\ ~relay_states[2]

\* C23: with the state file missing or malformed, restore_last_states
\* (through _load_last_states) raises nothing and leaves the vector as it
\* was.
C23_LoadToleratesBadFile ==
    [][\A t \in Writers :
          (Restores(t) /\ restore_state
             /\ (~state_file.exists \/ MalformedFile)) =>
             /\ result'[t] = "Returned"
             /\ relay_states' = relay_states]_vars

\* C24: with nothing persisted, restore_last_states writes no frame and
\* leaves the vector as it was, whatever the vector holds.
C24_RestoreNoOp ==
    [][\A t \in Writers :
          (Restores(t) /\ NothingPersisted) =>
             /\ command'[t] = <<>>
             /\ solo'.frames = 0
             /\ relay_states' = relay_states]_vars

\* C25: every refresh that fails (hub reported unavailable, or
\* read_relay_status returning no states) raises consecutive_failures by
\* exactly one.
C25_FailureCountsOnce ==
    [][\A t \in Pollers :
          (Refreshes(t) /\ result'[t] = "UpdateFailed") =>
             consecutive_failures' = consecutive_failures + 1]_vars

\* C26: with a base interval in 5..300, after k failed refreshes in a row
\* the current interval is min(base * 2^max(0, k - 3), 300), and it always
\* lies between the base interval and 300.
C26_BackoffSchedule ==
    base_poll_interval \in 5..300 =>
       /\ current_poll_interval =
             Min(base_poll_interval
                    * Pow2(IF failed_refreshes > 3 THEN failed_refreshes - 3
                           ELSE 0),
                 300)
       /\ base_poll_interval <= current_poll_interval
       /\ current_poll_interval <= 300

\* C27: a refresh that succeeds sets consecutive_failures to 0 and both the
\* current poll interval and the scheduler's update interval to the base
\* interval, whatever they were.
C27_SuccessResets ==
    [][\A t \in Pollers :
          (Refreshes(t) /\ result'[t] = "Data") =>
             /\ consecutive_failures' = 0
             /\ current_poll_interval' = base_poll_interval
             /\ update_interval' = base_poll_interval]_vars

C27_Witness ==
    \E t \in Pollers :
       /\ pc[t] = "done"
       /\ op[t].kind = "refresh"
       /\ result[t] = "Data"
       /\ op[t].n > MaxConsecutiveFailures
       /\ base_poll_interval = 30
       /\ consecutive_failures = 0
       /\ update_interval = 30

\* C28: async_set_relay_state calls async_request_refresh exactly when its
\* set_relay_state call succeeded; when the call failed in transmission or
\* was rejected by validation it returns False, requests nothing and raises
\* nothing.
C28_RefreshIffSetSucceeded ==
    [][\A t \in Writers :
          CoordinatorSets(t) =>
             /\ result'[t] \in {"True", "False"}
             /\ SetSucceeded(t)' =>
                   /\ refresh_requests' = refresh_requests + 1
                   /\ result'[t] = "True"
             /\ ~SetSucceeded(t)' =>
                   /\ refresh_requests' = refresh_requests
                   /\ result'[t] = "False"]_vars

C28_Witness ==
    \E t \in Writers :
       /\ pc[t] = "done"
       /\ op[t].kind = "coordinator_set"
       /\ ValidateRelay(op[t].n) = "valid"
       /\ last_response[t].isNone
       /\ result[t] = "False"
       /\ refresh_requests = 0
       /\ relay_states[op[t].n]

\* C29: in every write command the payload is little-endian: relay i of
\* the vector sent is on exactly when bit (i-1) mod 8 of payload byte
\* (i-1) div 8 is set, for 8, 16 and 32 relays.
C29_LittleEndianPayload ==
    [][\A t \in Writers :
          BuildsWriteCommand(t) =>
             \A i \in 1..num_relays :
                relay_states'[i] <=>
                   BitOf(command'[t][8 + ((i - 1) \div 8)], (i - 1) % 8) = 1
      ]_vars

\* C30: on an 8-relay hub, the write command for the vector with exactly
\* relays 1 and 3 on carries the single payload byte 5, and a status
\* response whose single status byte is 5 decodes to exactly relays 1 and 3
\* on.
C30_EightRelaysFive ==
    [][\A t \in Writers :
          /\ (BuildsWriteCommand(t) /\ num_relays = 8
                /\ relay_states' = OneAndThree) =>
                /\ Len(command'[t]) = 10
                /\ command'[t][8] = 5
          /\ (pc[t] = "idle" /\ op'[t].kind = "read" /\ num_relays = 8
                /\ result'[t] = "States"
                /\ Len(last_response'[t].bytes) = 6
                /\ last_response'[t].bytes[4] = 5) =>
                relay_states' = OneAndThree]_vars

C30_Witness ==
    \E t \in Writers :
       /\ pc[t] = "done"
       /\ op[t].kind = "set"
       /\ num_relays = 8
       /\ relay_states = OneAndThree
       /\ command[t][8] = 5
       /\ result[t] = "True"
       /\ coils = OneAndThree

\* C31: the read query is the 8 bytes address, 1, 0, 0, 0, num_relays and
\* the CRC-16/MODBUS of these six bytes, a value within 16 bits, low byte
\* first; for address 1 and 32 relays it is 01 01 00 00 00 20 3D D2.
C31_ReadQueryFrame ==
    [][\A t \in Writers :
          (pc[t] = "idle" /\ op'[t].kind = "read") =>
             LET frame == command'[t]
                 crc == CrcFold(65535, SubSeq(frame, 1, 6), 1)
             IN  /\ Len(frame) = 8
                 /\ SubSeq(frame, 1, 6)
                       = <<DeviceAddress, 1, 0, 0, 0, num_relays>>
                 /\ crc \in 0..65535
                 /\ frame[7] = crc % 256
                 /\ frame[8] = crc \div 256
                 /\ (DeviceAddress = 1 /\ num_relays = 32) =>
                       frame = <<1, 1, 0, 0, 0, 32, 61, 210>>]_vars

C31_Witness ==
    \E t \in Writers :
       /\ pc[t] = "done"
       /\ op[t].kind = "read"
       /\ num_relays = 32
       /\ command[t] = <<1, 1, 0, 0, 0, 32, 61, 210>>
       /\ result[t] = "States"

\* C32: after any sequence of set_relay_state, read_relay_status (whatever
\* the length and content of the response) and restore_last_states, the
\* vector has exactly num_relays entries, and the byte size is
\* ceil(num_relays / 8).
C32_VectorLength ==
    /\ Len(relay_states) = num_relays
    /\ DOMAIN relay_states = 1..num_relays
    /\ 8 * ByteSize >= num_relays
    /\ 8 * (ByteSize - 1) < num_relays

C32_Witness ==
    \E t \in Writers :
       /\ pc[t] = "done"
       /\ op[t].kind = "read"
       /\ result[t] = "States"
       /\ num_relays = 32
       /\ Len(last_response[t].bytes) = 5 + ByteSize + 1
       /\ Len(relay_states) = 32
       /\ state_file.exists

\* C33: on a 32-relay hub, the status response 01 01 04 05 00 00 00 and its
\* two trailer bytes (status bytes 05 00 00 00) decodes to exactly relays
\* 1 and 3 on and every other relay off.
C33_ThirtyTwoRelaysFive ==
    [][\A t \in Writers :
          (pc[t] = "idle" /\ op'[t].kind = "read" /\ num_relays = 32
             /\ result'[t] = "States"
             /\ Len(last_response'[t].bytes) = 9
             /\ SubSeq(last_response'[t].bytes, 1, 7)
                   = <<1, 1, 4, 5, 0, 0, 0>>) =>
             relay_states' = [k \in 1..32 |-> k \in {1, 3}]]_vars

\* C34: when set_relay_state reports failure, the turn_on of a switch or a
\* light has called set_relay_state exactly once, with (address, True), has
\* still set the entity's is_on to true, and has written the entity state
\* exactly once.
C34_TurnOnFailure ==
    (entity.kind \in EntityKinds /\ entity.position = "idle"
       /\ entity.target_state /\ entity.reported = {"False"}) =>
       /\ entity.calls = 1
       /\ entity.attr_is_on
       /\ entity.writes = 1

\* C35: no connection attempt starts while the breaker is Open and the
\* recovery timeout has not elapsed, the remaining attempts of a send that
\* passed the breaker check before another send opened the breaker included.
C35_NoConnectWhileOpen ==
    [][\A t \in Tasks :
          (pc[t] # "connecting" /\ pc'[t] = "connecting") =>
             ~OpenNotElapsed]_vars

\* C36: polling recovers by itself: once the device is reachable for good,
\* whatever failed before, the refreshes on the timer eventually include one
\* whose read_relay_status succeeds, which leaves consecutive_failures at 0
\* and the current poll interval at the base interval.
C36_PollingRecovers ==
    PollTicksRepeat =>
       (reachable ~>
           \E t \in Pollers :
              /\ pc[t] = "done"
              /\ op[t].kind = "refresh"
              /\ result[t] = "Data"
              /\ consecutive_failures = 0
              /\ current_poll_interval = base_poll_interval)

\* C37: once set_relay_state(n, v) of the switch has returned success, a
\* later successful set_relay_state(m, w) for another relay m leaves relay n
\* at v on the device, whatever read_relay_status calls overlap the two
C37_NoLostUpdate ==
    [][\A t \in Writers :
          (/\ Ends(t)
           /\ op[t].kind = "set"
           /\ op[t].n # entity.address
           /\ result'[t] = "True"
           /\ entity.reported = {"True"})
          => coils'[entity.address] = entity.attr_is_on]_vars

\* C38: when restore_last_states has run with restore enabled and a
\* well-formed state file present, and any frame it sent was acknowledged,
\* every configured relay has its persisted value on the device and in the
\* vector, also when every persisted value is false and the device had a
\* configured relay on.
C38_RestoreReachesDevice ==
    [][\A t \in Writers :
          (/\ Restores(t)
           /\ restore_state
           /\ state_file.exists
           /\ ~MalformedFile
           /\ \/ command'[t] = <<>>
              \/ last_response'[t] = Some(DeviceWriteAck(command'[t])))
          => \A i \in 1..Len(state_file.items) :
                LET n == ParseInt(state_file.items[i].key)
                IN  Restorable(n) =>
                       /\ coils'[n] = state_file.items[i].value
                       /\ relay_states'[n] = state_file.items[i].value]_vars

\* C39: encode and decode agree on bit and byte order: a status response
\* whose status bytes are the payload bytes of the write command built from
\* a vector decodes to that vector, for relay counts that fill their last
\* byte and relay counts that do not.
C39_EncodeDecodeAgree ==
    \A t \in Writers :
       (pc[t] = "done" /\ op[t].kind = "set" /\ command[t] # <<>>) =>
          LET body == <<DeviceAddress, 1, ByteSize>>
                      \o SubSeq(command[t], 8, 7 + ByteSize)
          IN  DecodeStatus(body \o calculate_crc(body)) = relay_states

C39_Witness ==
    \E t \in Writers :
       /\ pc[t] = "done"
       /\ op[t].kind = "set"
       /\ command[t] # <<>>
       /\ num_relays = 12
       /\ relay_states[1]
       /\ relay_states[9]
       /\ ~relay_states[2]

====
